---------------------------- MODULE Spec2Model ----------------------------
(***************************************************************************)
(* Model of src/app.py: the ODPS -> Excel export script.                   *)
(*                                                                         *)
(* One run of the script is modelled: the credential gate, the form, the   *)
(* connection factory, the bounded query, the branch on the returned       *)
(* frame, the chunked sheet loop, the read-back, the download offer and    *)
(* the temp-file cleanup.                                                  *)
(*                                                                         *)
(* A data frame is represented by its row count; a slice df.iloc[a:b] by   *)
(* the half-open row interval it selects.  Row counts keep their real      *)
(* magnitudes (800000 per sheet, ceiling 1000000).                         *)
(***************************************************************************)
EXTENDS Integers, Sequences, FiniteSets, TLC

VARIABLES
    pc,          \* position of the script run
    access_id,   \* sidebar text input (line 53)
    access_key,  \* sidebar text input (line 60)
    table_name,  \* form text input (line 99)
    max_rows,    \* form selectbox (line 106)
    submitted,   \* form submit button (line 113)
    o,           \* value returned by get_odps_connection
    odpsCalls,   \* credentials the ODPS constructor was called with
    sqlLog,      \* SQL statements handed to execute_sql
    wh,          \* what the warehouse side actually did
    df,          \* value returned by safe_odps_query
    ui,          \* messages shown to the user, in order
    progress,    \* last value given to progress_bar.progress
    sheet_num,   \* line 139
    i,           \* loop variable of line 143
    sheets,      \* sheets handed to the ExcelWriter, in order
    tmpCreated,  \* a NamedTemporaryFile was created in this run
    tmpExists,   \* the temp file is still on disk
    excel_data,  \* bytes were read back (line 159)
    download     \* a download button was offered (line 177)

vars == <<pc, access_id, access_key, table_name, max_rows, submitted, o,
          odpsCalls, sqlLog, wh, df, ui, progress, sheet_num, i, sheets,
          tmpCreated, tmpExists, excel_data, download>>

-----------------------------------------------------------------------------
(* Program constants *)

\* min(max_rows, 1000000), line 38
Ceiling == 1000000

\* rows per sheet, lines 139, 148, 149
ChunkSize == 800000

\* the selectbox options, line 108
MaxRowsChoices == {100000, 500000, 1000000, 2000000, 5000000}

\* stands for the constant two-character prefix of the sheet names, line 154
SheetPrefix == "data_"

(* Bounds of the model *)

\* table sizes go up to MaxChunks full chunks plus one row
MaxChunks == 3

\* row counts around every multiple of the chunk size
RowCounts ==
    {n \in {k * ChunkSize + d : k \in 0..MaxChunks, d \in {-1, 0, 1}} : n >= 0}
        \cup {m \in MaxRowsChoices : m <= MaxChunks * ChunkSize + 1}

\* strings the credential inputs may hold
IdChoices == {"", "id"}
KeyChoices == {"", "key"}

\* table names: empty, an existing table, a table that does not exist
TableChoices == {"", "proj.orders", "proj.missing"}
ExistingTables == {"proj.orders"}

-----------------------------------------------------------------------------
(* Pure helpers *)

Min(a, b) == IF a <= b THEN a ELSE b

PyNotIsNone(s) == FALSE

\* Python's `not s` on a str: true exactly for the empty string
PyNot(s) == s = ""

SafeMaxRowsUnclamped(m) == m

SafeMaxRowsMax(m) == IF m >= Ceiling THEN m ELSE Ceiling

\* line 38
SafeMaxRows(m) == Min(m, Ceiling)

NoneDf == [kind |-> "None", n |-> 0]
Frame(n) == [kind |-> "frame", n |-> n]

\* DataFrame.empty: no rows (a warehouse table has at least one column)
DfEmpty(d) == d.n = 0

ShouldExportAlways(d) == TRUE

ShouldExportNotNone(d) == d.kind # "None"

\* line 125: df is not None and not df.empty
ShouldExport(d) == d.kind # "None" /\ ~DfEmpty(d)

SheetNumFloor(n) == n \div ChunkSize

\* line 139: math.ceil(len(df) / 800000); the float quotient of these
\* magnitudes is exact enough that the ceiling is the integer ceiling
SheetNum(n) == IF n % ChunkSize = 0 THEN n \div ChunkSize ELSE n \div ChunkSize + 1

StartIdxOffByOne(k) == k * ChunkSize + 1

\* line 148
StartIdx(k) == k * ChunkSize

\* line 149
EndIdx(k, n) == Min((k + 1) * ChunkSize, n)

\* df.iloc[a:b] on a frame of n rows: the rows [min(a,n), min(b,n)), empty
\* when the bounds cross
Iloc(a, b, n) ==
    LET lo == Min(a, n)
        hi == Min(b, n)
    IN [start |-> lo, end |-> IF hi < lo THEN lo ELSE hi]

OnQueryErrorSilent(u) == u

\* lines 45-46: the except handler reports the failure
OnQueryError(u) == Append(u, "error_query")

ProgressNumAhead(k) == k + 2

\* numerator of line 145: (i + 1) / sheet_num
ProgressNum(k) == k + 1


\* f'{prefix}{i+1}', line 154
SheetName(k) == [prefix |-> SheetPrefix, num |-> k + 1]

-----------------------------------------------------------------------------
(* Initial states *)

NoProgress == [num |-> 0, den |-> 1]

\* a fresh run of the script: the widgets hold what the user entered
Init ==
    /\ pc = "gate"
    /\ access_id \in IdChoices
    /\ access_key \in KeyChoices
    /\ table_name \in TableChoices
    /\ max_rows \in MaxRowsChoices
    /\ submitted \in BOOLEAN
    /\ o = "unset"
    /\ odpsCalls = {}
    /\ sqlLog = <<>>
    /\ wh = "none"
    /\ df = NoneDf
    /\ ui = <<>>
    /\ progress = NoProgress
    /\ sheet_num = 0
    /\ i = 0
    /\ sheets = <<>>
    /\ tmpCreated = FALSE
    /\ tmpExists = FALSE
    /\ excel_data = FALSE
    /\ download = FALSE

\* the writer stage entered directly with a frame of n >= 1 rows
InitWriter ==
    /\ pc = "tmpfile"
    /\ access_id = "id"
    /\ access_key = "key"
    /\ table_name = "proj.orders"
    /\ max_rows = Ceiling
    /\ submitted = TRUE
    /\ o = "handle"
    /\ odpsCalls = {<<"id", "key">>}
    /\ sqlLog = <<[table |-> "proj.orders", limit |-> SafeMaxRows(Ceiling)]>>
    /\ wh = "ok"
    /\ df \in {Frame(n) : n \in RowCounts \ {0}}
    /\ ui = <<"query_success", "status_generating">>
    /\ progress = NoProgress
    /\ sheet_num = 0
    /\ i = 0
    /\ sheets = <<>>
    /\ tmpCreated = FALSE
    /\ tmpExists = FALSE
    /\ excel_data = FALSE
    /\ download = FALSE

-----------------------------------------------------------------------------
(* The script, top to bottom *)

pipelineVars == <<access_id, access_key, table_name, max_rows, submitted>>
writerVars == <<progress, sheet_num, i, sheets, tmpCreated, tmpExists,
                excel_data, download>>

\* lines 91-93: without both credentials the script stops before the form
CredentialGate ==
    /\ pc = "gate"
    /\ IF PyNot(access_id) \/ PyNot(access_key)
       THEN /\ ui' = Append(ui, "warn_credentials")
            /\ pc' = "stopped"
       ELSE /\ ui' = ui
            /\ pc' = "form"
    /\ UNCHANGED <<pipelineVars, writerVars, o, odpsCalls, sqlLog, wh, df>>

\* lines 119-122: nothing happens unless the form was submitted with a
\* table name
Submitted ==
    /\ pc = "form"
    /\ IF ~submitted
       THEN /\ ui' = ui
            /\ pc' = "done"
       ELSE IF PyNot(table_name)
            THEN /\ ui' = Append(ui, "error_table_name")
                 /\ pc' = "done"
            ELSE /\ ui' = ui
                 /\ pc' = "connect"
    /\ UNCHANGED <<pipelineVars, writerVars, o, odpsCalls, sqlLog, wh, df>>

\* lines 18-28, called from line 33: the ODPS constructor returns a handle
\* or raises
GetOdpsConnection ==
    /\ pc = "connect"
    /\ IF PyNot(access_id) \/ PyNot(access_key)
       THEN /\ ui' = Append(ui, "error_credentials")
            /\ o' = "None"
            /\ UNCHANGED <<odpsCalls, wh>>
       ELSE /\ odpsCalls' = odpsCalls \cup {<<access_id, access_key>>}
            /\ \E raised \in BOOLEAN :
                 IF raised
                 THEN /\ ui' = Append(ui, "error_connection")
                      /\ o' = "None"
                      /\ wh' = "conn_raise"
                 ELSE /\ ui' = ui
                      /\ o' = "handle"
                      /\ wh' = wh
    /\ pc' = "query"
    /\ UNCHANGED <<pipelineVars, writerVars, sqlLog, df>>

\* lines 34-47: the bounded scan.  The warehouse raises for a table that
\* does not exist and may raise for one that does; otherwise it returns
\* min(table size, LIMIT) rows.
SafeOdpsQuery ==
    /\ pc = "query"
    /\ IF o = "None"
       THEN /\ df' = NoneDf
            /\ UNCHANGED <<sqlLog, wh, ui>>
       ELSE LET safe_max_rows == SafeMaxRows(max_rows)
                sql == [table |-> table_name, limit |-> safe_max_rows]
            IN /\ sqlLog' = Append(sqlLog, sql)
               /\ \/ /\ wh' = "query_raise"
                     /\ ui' = OnQueryError(ui)
                     /\ df' = NoneDf
                  \/ /\ table_name \in ExistingTables
                     /\ wh' = "ok"
                     /\ ui' = ui
                     /\ \E size \in RowCounts :
                          df' = Frame(Min(size, sql.limit))
    /\ pc' = "branch"
    /\ UNCHANGED <<pipelineVars, writerVars, o, odpsCalls>>

\* lines 125-136 and 191-197
Branch ==
    /\ pc = "branch"
    /\ IF ShouldExport(df)
       THEN /\ ui' = ui \o <<"query_success", "status_generating">>
            /\ progress' = NoProgress
            /\ pc' = "tmpfile"
       ELSE /\ ui' = Append(ui, "error_failed_or_empty")
            /\ progress' = progress
            /\ pc' = "done"
    /\ UNCHANGED <<pipelineVars, o, odpsCalls, sqlLog, wh, df, sheet_num, i,
                   sheets, tmpCreated, tmpExists, excel_data, download>>

\* lines 137-142: the temp file is created with delete=False
CreateTempFile ==
    /\ pc = "tmpfile"
    /\ tmpCreated' = TRUE
    /\ tmpExists' = TRUE
    /\ sheet_num' = SheetNum(df.n)
    /\ i' = 0
    /\ ui' = Append(ui, "status_sheet_count")
    /\ pc' = "loop"
    /\ UNCHANGED <<pipelineVars, o, odpsCalls, sqlLog, wh, df, progress,
                   sheets, excel_data, download>>

\* lines 143-145: loop test, status text and progress update
LoopHead ==
    /\ pc = "loop"
    /\ IF i < sheet_num
       THEN /\ ui' = Append(ui, "status_writing")
            /\ progress' = [num |-> ProgressNum(i), den |-> sheet_num]
            /\ pc' = "to_excel"
       ELSE /\ ui' = ui
            /\ progress' = progress
            /\ pc' = "close_writer"
    /\ UNCHANGED <<pipelineVars, o, odpsCalls, sqlLog, wh, df, sheet_num, i,
                   sheets, tmpCreated, tmpExists, excel_data, download>>

\* lines 148-156: slice and write one sheet; to_excel may raise, and the
\* exception leaves the script
ToExcel ==
    /\ pc = "to_excel"
    /\ LET start_idx == StartIdx(i)
           end_idx == EndIdx(i, df.n)
           rows == Iloc(start_idx, end_idx, df.n)
       IN \/ /\ sheets' = Append(sheets,
                    [name |-> SheetName(i), start |-> rows.start,
                     end |-> rows.end])
             /\ i' = i + 1
             /\ ui' = ui
             /\ pc' = "loop"
          \/ /\ ui' = Append(ui, "exception")
             /\ pc' = "crashed"
             /\ UNCHANGED <<sheets, i>>
    /\ UNCHANGED <<pipelineVars, o, odpsCalls, sqlLog, wh, df, progress,
                   sheet_num, tmpCreated, tmpExists, excel_data, download>>

\* line 142, leaving the ExcelWriter block saves the workbook
CloseWriter ==
    /\ pc = "close_writer"
    /\ pc' = "read"
    /\ UNCHANGED <<pipelineVars, o, odpsCalls, sqlLog, wh, df, ui, writerVars>>

\* lines 158-159: reading the file back may raise
ReadBack ==
    /\ pc = "read"
    /\ \/ /\ excel_data' = TRUE
          /\ ui' = ui
          /\ pc' = "publish"
       \/ /\ ui' = Append(ui, "exception")
          /\ pc' = "crashed"
          /\ UNCHANGED excel_data
    /\ UNCHANGED <<pipelineVars, o, odpsCalls, sqlLog, wh, df, progress,
                   sheet_num, i, sheets, tmpCreated, tmpExists, download>>

\* lines 162-184: completion status, details and the download button
Publish ==
    /\ pc = "publish"
    /\ ui' = ui \o <<"status_done", "info_details">>
    /\ progress' = [num |-> 1, den |-> 1]
    /\ download' = TRUE
    /\ pc' = "unlink"
    /\ UNCHANGED <<pipelineVars, o, odpsCalls, sqlLog, wh, df, sheet_num, i,
                   sheets, tmpCreated, tmpExists, excel_data>>

\* lines 187-190: a failing unlink is swallowed
Unlink ==
    /\ pc = "unlink"
    /\ \E removed \in BOOLEAN : tmpExists' = (tmpExists /\ ~removed)
    /\ pc' = "done"
    /\ UNCHANGED <<pipelineVars, o, odpsCalls, sqlLog, wh, df, ui, progress,
                   sheet_num, i, sheets, tmpCreated, excel_data, download>>

Next ==
    \/ CredentialGate
    \/ Submitted
    \/ GetOdpsConnection
    \/ SafeOdpsQuery
    \/ Branch
    \/ CreateTempFile
    \/ LoopHead
    \/ ToExcel
    \/ CloseWriter
    \/ ReadBack
    \/ Publish
    \/ Unlink

\* the whole script, with a warehouse that honours LIMIT
Spec == Init /\ [][Next]_vars

NextWriter ==
    \/ CreateTempFile
    \/ LoopHead
    \/ ToExcel
    \/ CloseWriter
    \/ ReadBack
    \/ Publish
    \/ Unlink

\* the writer stage alone, over frames of any size in RowCounts
WriterSpec == InitWriter /\ [][NextWriter]_vars

-----------------------------------------------------------------------------
(* Vocabulary of the properties *)

Terminal == pc \in {"done", "stopped", "crashed"}

\* the query ran, succeeded and returned no rows
EmptySuccess == wh = "ok" /\ df.kind = "frame" /\ df.n = 0

\* the connection or the query failed
Failure == wh \in {"conn_raise", "query_raise"}

Shown(m) == \E k \in 1..Len(ui) : ui[k] = m

Diagnostics == {"error_credentials", "error_connection", "error_query"}

WriterFinished == pc \in {"close_writer", "read", "publish", "unlink", "done"}
                    /\ tmpCreated

SheetRows(s) == s.end - s.start

RECURSIVE SumRows(_)
SumRows(ss) == IF ss = <<>> THEN 0 ELSE SheetRows(Head(ss)) + SumRows(Tail(ss))

-----------------------------------------------------------------------------
(* C1 *)

\* C1: every SQL statement sent to the warehouse carries LIMIT
\* min(requested, 1000000): never above the ceiling, the ceiling itself when
\* the requested value is above it, the requested value otherwise.
C1_LimitClamped ==
    \A k \in 1..Len(sqlLog) :
        /\ sqlLog[k].limit <= Ceiling
        /\ max_rows > Ceiling => sqlLog[k].limit = Ceiling
        /\ max_rows <= Ceiling => sqlLog[k].limit = max_rows

C1_Witness == max_rows = 5000000 /\ Len(sqlLog) = 1 /\ sqlLog[1].limit = Ceiling

-----------------------------------------------------------------------------
(* C2 *)

\* C2: once the sheet loop has finished on a frame of n >= 1 rows, the
\* slices start at row 0, each starts where the previous one ended, none is
\* reversed, the last ends at n, and their row counts add up to n.
C2_SlicesPartition ==
    (WriterFinished /\ df.n >= 1) =>
        /\ Len(sheets) >= 1
        /\ sheets[1].start = 0
        /\ \A k \in 1..Len(sheets) : sheets[k].start < sheets[k].end
        /\ \A k \in 1..(Len(sheets) - 1) : sheets[k].end = sheets[k + 1].start
        /\ sheets[Len(sheets)].end = df.n
        /\ SumRows(sheets) = df.n

C2_Witness ==
    /\ WriterFinished
    /\ df.n = 2 * ChunkSize + 1
    /\ Len(sheets) = 3
    /\ sheets[2].end = sheets[3].start

-----------------------------------------------------------------------------
(* C3 *)

\* C3: once the sheet loop has finished on a frame of n >= 1 rows there are
\* exactly k = ceil(n / 800000) sheets (the k with (k-1)*800000 < n <=
\* k*800000), the j-th sheet is named prefix_j, every sheet but the last
\* holds 800000 rows and the last holds between 1 and 800000 rows; n =
\* 800000 gives one sheet and n = 1600001 gives sizes [800000, 800000, 1].
C3_SheetCountAndSizes ==
    (WriterFinished /\ df.n >= 1) =>
        LET k == Len(sheets) IN
        /\ (k - 1) * ChunkSize < df.n
        /\ df.n <= k * ChunkSize
        /\ k = sheet_num
        /\ \A j \in 1..k : sheets[j].name = [prefix |-> SheetPrefix, num |-> j]
        /\ \A j \in 1..(k - 1) : SheetRows(sheets[j]) = ChunkSize
        /\ SheetRows(sheets[k]) >= 1
        /\ SheetRows(sheets[k]) <= ChunkSize
        /\ df.n = ChunkSize => k = 1
        /\ df.n = 2 * ChunkSize + 1 =>
               /\ k = 3
               /\ SheetRows(sheets[1]) = ChunkSize
               /\ SheetRows(sheets[2]) = ChunkSize
               /\ SheetRows(sheets[3]) = 1

C3_Witness ==
    /\ pc = "done"
    /\ df.n = 2 * ChunkSize + 1
    /\ Len(sheets) = 3
    /\ SheetRows(sheets[3]) = 1

-----------------------------------------------------------------------------
(* C4 *)

\* C4 as stated: a successful query with zero rows ends with a download
\* artifact of exactly one sheet holding zero data rows.
C4_Original ==
    (pc = "done" /\ EmptySuccess) =>
        /\ download
        /\ Len(sheets) = 1
        /\ SheetRows(sheets[1]) = 0

\* C4 amended: a successful query with zero rows ends without any artifact:
\* no temp file, no sheet, no download; the user sees only the "failed or
\* empty" message.
C4_EmptyResultNoArtifact ==
    (pc = "done" /\ EmptySuccess) =>
        /\ ~download
        /\ ~tmpCreated
        /\ sheets = <<>>
        /\ ui = <<"error_failed_or_empty">>

C4_Witness == pc = "done" /\ EmptySuccess /\ ~download /\ Len(sqlLog) = 1

-----------------------------------------------------------------------------
(* C5 *)

\* C5: what is observed after an empty success differs from what is
\* observed after a failed connection or query: the empty success returns a
\* frame and shows no diagnostic, the failure returns None and shows one.
C5_EmptyDistinctFromFailure ==
    /\ (pc = "done" /\ EmptySuccess) =>
           /\ df.kind = "frame"
           /\ \A m \in Diagnostics : ~Shown(m)
    /\ (pc = "done" /\ Failure) =>
           /\ df.kind = "None"
           /\ \E m \in Diagnostics : Shown(m)

C5_Witness ==
    /\ pc = "done"
    /\ Failure
    /\ wh = "query_raise"
    /\ ui = <<"error_query", "error_failed_or_empty">>

-----------------------------------------------------------------------------
(* C6 *)

\* C6: with an empty access id or access key the run never constructs an
\* ODPS client and never executes SQL; it is at or stops at the gate.
C6_EmptyCredentialsNoClient ==
    (access_id = "" \/ access_key = "") =>
        /\ odpsCalls = {}
        /\ sqlLog = <<>>
        /\ pc \in {"gate", "stopped"}

C6_Witness == pc = "stopped" /\ access_key = "" /\ access_id # "" /\ odpsCalls = {}

-----------------------------------------------------------------------------
(* C7 *)

\* C7: no SQL is executed after a failed connection; after a failed
\* connection or query no temp file is created, no sheet is written and no
\* download is offered; an empty table name means no client and no SQL.
C7_FailsClosed ==
    /\ o = "None" => sqlLog = <<>>
    /\ Failure => (~tmpCreated /\ sheets = <<>> /\ ~excel_data /\ ~download)
    /\ table_name = "" => (odpsCalls = {} /\ sqlLog = <<>>)

C7_Witness ==
    /\ pc = "done"
    /\ table_name = "proj.missing"
    /\ wh = "query_raise"
    /\ ~download

-----------------------------------------------------------------------------
(* C8 *)

\* C8: no run ends with the temp file still on disk.
C8_TempFileReleased == Terminal => ~tmpExists

-----------------------------------------------------------------------------
(* C9 *)

\* C9 as stated: the reported fraction of sheets never exceeds the fraction
\* of sheets written.
C9_Original ==
    tmpCreated => progress.num * sheet_num <= Len(sheets) * progress.den

\* C9 amended: the update (i+1)/sheet_num is emitted just before sheet i+1
\* is written, so the reported fraction runs at most one sheet ahead of the
\* sheets written.
C9_ProgressOneAhead ==
    tmpCreated =>
        /\ progress.num * sheet_num <= (Len(sheets) + 1) * progress.den
        /\ pc = "to_excel" =>
               progress = [num |-> Len(sheets) + 1, den |-> sheet_num]

C9_Witness ==
    /\ pc = "to_excel"
    /\ Len(sheets) = 1
    /\ progress = [num |-> 2, den |-> 3]

-----------------------------------------------------------------------------
(* C10 *)

\* C10: with a warehouse that returns at most LIMIT rows, whenever the
\* writer runs the frame has between 1 and 1000000 rows and there are one
\* or two sheets.
C10_AtMostTwoSheets ==
    tmpCreated =>
        /\ df.n >= 1
        /\ df.n <= Ceiling
        /\ sheet_num \in {1, 2}
        /\ Len(sheets) <= 2

C10_Witness ==
    /\ pc = "done"
    /\ download
    /\ df.n = Ceiling
    /\ Len(sheets) = 2

=============================================================================
